---- MODULE Spec2Model ----
(***************************************************************************)
(* Workspace path registry (lib/src/workspace_store.rs) and the two        *)
(* commands that use it, `workspace forget` and `workspace root`           *)
(* (cli/src/commands/workspace/{forget,root}.rs).                          *)
(*                                                                         *)
(* The registry is a directory holding one file per workspace, named by    *)
(* the workspace name's symbol form and holding an encoded Workspace       *)
(* record {name, path}.  Every operation is modelled step by step, one     *)
(* action per filesystem call or repository call, so that failures and a   *)
(* killed process can be placed between any two of them.                   *)
(***************************************************************************)
EXTENDS Integers, Sequences, FiniteSets, TLC

\* ------------------------------------------------------------------------
\* Bounds of the model

\* longest argument list given to `workspace forget`
MaxArgs == 2
\* number of temporary-file names available in the registry directory
MaxTemps == 2

\* ------------------------------------------------------------------------
\* Universe: workspace names, paths, processes

Names == {"a", "b", "+"}

\* name of the workspace the commands are run from
CurrentWorkspace == "a"

\* root of the workspace the commands are run from
AmbientRoot == "/a"

\* "/a" is a directory that always exists, "/b" is a directory, nothing, or a
\* symlink to "/a", "/l" is a symlink to "/b".
Paths == {"/a", "/b", "/l"}

Procs == {"p1", "p2"}

\* ------------------------------------------------------------------------
\* Strings and bytes

\* the UTF-8 bytes of the strings of the model
Utf8(s) ==
    CASE s = "a" -> <<97>>
      [] s = "b" -> <<98>>
      [] s = "\"+\"" -> <<34, 43, 34>>
      [] s = "+" -> <<43>>
      [] s = "/a" -> <<47, 97>>
      [] s = "/b" -> <<47, 98>>
      [] s = "/l" -> <<47, 108>>
      [] s = "\n" -> <<10>>
      [] OTHER -> <<>>

\* WorkspaceName::as_symbol().to_string(): an identifier is printed as it is,
\* any other name is printed as a quoted string literal.
Symbol(n) == IF n \in {"a", "b"} THEN n ELSE "\"" \o n \o "\""

Symbols == {Symbol(n) : n \in Names}

\* ------------------------------------------------------------------------
\* Record codec: message Workspace { string name = 1; string path = 2; }
\* A record is [name |-> bytes, path |-> bytes] (a string is its UTF-8 bytes).

EmptyRecord == [name |-> <<>>, path |-> <<>>]

\* base-128 varint of a length below 2^14
EncodeVarint(v) == IF v < 128 THEN <<v>> ELSE <<128 + (v % 128), v \div 128>>

\* one length-delimited field (wire type 2); a field holding the default
\* value, the empty string, is not written
EncodeString(field, bytes) ==
    IF bytes = <<>> THEN <<>>
    ELSE <<field * 8 + 2>> \o EncodeVarint(Len(bytes)) \o bytes

Encode(rec) == EncodeString(1, rec.name) \o EncodeString(2, rec.path)

Drop(buf, k) == SubSeq(buf, k + 1, Len(buf))

\* [ok, val, rest]: the varint at the head of buf
RECURSIVE DecodeVarint(_)
DecodeVarint(buf) ==
    IF buf = <<>> THEN [ok |-> FALSE, val |-> 0, rest |-> <<>>]
    ELSE IF buf[1] < 128 THEN [ok |-> TRUE, val |-> buf[1], rest |-> Tail(buf)]
    ELSE LET more == DecodeVarint(Tail(buf))
         IN  [ok |-> more.ok, val |-> (buf[1] - 128) + 128 * more.val,
              rest |-> more.rest]

\* the strings of the model are ASCII
ValidUtf8(bytes) == \A i \in 1..Len(bytes) : bytes[i] < 128

DecodeFailed == [ok |-> FALSE, rec |-> EmptyRecord]

\* merge the fields of buf into rec, field by field; unknown fields are
\* skipped by their wire type
RECURSIVE DecodeInto(_, _)
DecodeInto(buf, rec) ==
    IF buf = <<>> THEN [ok |-> TRUE, rec |-> rec]
    ELSE
    LET key == DecodeVarint(buf)
        wire == key.val % 8
        field == key.val \div 8
        len == DecodeVarint(key.rest)
    IN  IF ~key.ok \/ field = 0 \/ wire > 5 THEN DecodeFailed
        ELSE IF field \in {1, 2} THEN
            IF wire # 2 \/ ~len.ok \/ len.val > Len(len.rest) THEN DecodeFailed
            ELSE LET str == SubSeq(len.rest, 1, len.val)
                     after == Drop(len.rest, len.val)
                 IN  IF ~ValidUtf8(str) THEN DecodeFailed
                     ELSE IF field = 1
                          THEN DecodeInto(after, [rec EXCEPT !.name = str])
                          ELSE DecodeInto(after, [rec EXCEPT !.path = str])
        ELSE CASE wire = 0 ->
                    IF ~len.ok THEN DecodeFailed ELSE DecodeInto(len.rest, rec)
               [] wire = 1 ->
                    IF Len(key.rest) < 8 THEN DecodeFailed
                    ELSE DecodeInto(Drop(key.rest, 8), rec)
               [] wire = 2 ->
                    IF ~len.ok \/ len.val > Len(len.rest) THEN DecodeFailed
                    ELSE DecodeInto(Drop(len.rest, len.val), rec)
               [] wire = 5 ->
                    IF Len(key.rest) < 4 THEN DecodeFailed
                    ELSE DecodeInto(Drop(key.rest, 4), rec)
               [] OTHER -> DecodeFailed

Decode(buf) == DecodeInto(buf, EmptyRecord)

\* ------------------------------------------------------------------------
\* Paths on disk

\* what the host filesystem holds at each path: "dir", "none", or the
\* target of a symlink
FsStates ==
    {f \in [Paths -> {"dir", "none", "/a", "/b"}] :
        /\ f["/a"] = "dir"
        /\ f["/b"] \in {"dir", "none", "/a"}
        /\ f["/l"] = "/b"}

NoPath == "?"

\* dunce::canonicalize: follow symlinks to an existing directory; NoPath when
\* the path does not lead to one
RECURSIVE Resolve(_, _, _)
Resolve(f, path, fuel) ==
    IF path \notin Paths \/ fuel = 0 THEN NoPath
    ELSE CASE f[path] = "dir" -> path
           [] f[path] = "none" -> NoPath
           [] OTHER -> Resolve(f, f[path], fuel - 1)

Canonicalize(f, path) == Resolve(f, path, Cardinality(Paths))

\* the path a string of bytes names, NoPath when it names none of Paths
PathOfBytes(bytes) ==
    IF \E q \in Paths : Utf8(q) = bytes
    THEN CHOOSE q \in Paths : Utf8(q) = bytes
    ELSE NoPath

\* file_util::path_to_bytes on a Unix host: the bytes of the path
PathToBytes(path) == Utf8(path)

\* ------------------------------------------------------------------------
\* State

VARIABLES
    dir,            \* <repo>/workspace_store: "absent", "dir" or "file"
    files,          \* the registry files: file name -> bytes
    tmp,            \* the temporary files of the directory: id -> bytes
    wc_commit_ids,  \* the committed view: workspace name -> commit id
    fs,             \* the host filesystem outside the repository
    pc,             \* per process: where it is in its command
    cmd,            \* per process: the command and its arguments
    res,            \* per process: the command's result
    wss,            \* per process: forget's resolved list of names
    idx,            \* per process: forget's position in wss
    repo,           \* per process: the view loaded when the command began
    tx,             \* per process: the view of the open transaction
    txOpen,         \* per process: a transaction has been started
    proto,          \* per process: the record set_path writes or get_path read
    tempFile,       \* per process: set_path's temporary file id, 0 for none
    rootPath,       \* per process: the path root resolved
    stdout,         \* per process: bytes written to the standard output
    committed,      \* per process: description of the operation it committed
    pre             \* per process: the disk and the view when the command began

vars == <<dir, files, tmp, wc_commit_ids, fs, pc, cmd, res, wss, idx,
          repo, tx, txOpen, proto, tempFile, rootPath, stdout, committed, pre>>

locals == <<wss, idx, repo, tx, txOpen, proto, tempFile, rootPath, stdout,
            committed>>

TempIds == 1..MaxTemps

\* ------------------------------------------------------------------------
\* Maps with a finite domain

Without(f, k) == [x \in DOMAIN f \ {k} |-> f[x]]

With(f, k, v) == [x \in DOMAIN f \cup {k} |-> IF x = k THEN v ELSE f[x]]

EmptyMap == [x \in {} |-> <<>>]

\* ------------------------------------------------------------------------
\* Results

NoResult == [kind |-> "none", msg |-> ""]
Ok == [kind |-> "Ok", msg |-> ""]
IoError(what) == [kind |-> "Io", msg |-> what]
PathError == [kind |-> "Path", msg |-> "workspace_store"]
ProstDecode == [kind |-> "ProstDecode", msg |-> ""]
UserError(message) == [kind |-> "UserError", msg |-> message]
Killed == [kind |-> "Killed", msg |-> ""]

NoDescription == ""

NoSnapshot == [dir |-> "absent", files |-> EmptyMap, view |-> EmptyMap]

NoCmd == [op |-> "none", name |-> "", path |-> "", args |-> <<>>, named |-> FALSE]

\* ------------------------------------------------------------------------
\* The registry's reads (SimpleWorkspaceStore)

get_file(workspace_name) == Symbol(workspace_name)

exists(workspace_name) ==
    dir = "dir" /\ get_file(workspace_name) \in DOMAIN files

\* [res, rec]: the record of a name in the directory d holding the files
\* fl, or the error of reading it
ReadRecord(d, fl, workspace_name) ==
    LET workspace_file == get_file(workspace_name)
    IN  IF d # "dir" \/ workspace_file \notin DOMAIN fl
        THEN [res |-> IoError("NotFound"), rec |-> EmptyRecord]
        ELSE LET workspace_proto == Decode(fl[workspace_file])
             IN  IF workspace_proto.ok
                 THEN [res |-> Ok, rec |-> workspace_proto.rec]
                 ELSE [res |-> ProstDecode, rec |-> EmptyRecord]

get_path(workspace_name) == ReadRecord(dir, files, workspace_name)

\* file_util::create_or_reuse_dir: the directory's state afterwards, "file"
\* standing for the failure of a path that is no directory
create_or_reuse_dir(d) == IF d = "absent" THEN "dir" ELSE d

\* file_util::persist_temp_file: the temporary file replaces the file of the
\* final name in one rename
persist_temp_file(fl, tm, id, workspace_file) == With(fl, workspace_file, tm[id])

\* ------------------------------------------------------------------------
\* Initial states

WcCommit(n) == "wc-" \o n

\* a record as set_path writes it
RecordOf(n, path) == [name |-> Utf8(Symbol(n)), path |-> Utf8(path)]

\* the workspaces of the repository at the start: the current one and any of
\* the others
InitViews ==
    {[n \in S |-> WcCommit(n)] : S \in {T \in SUBSET Names : CurrentWorkspace \in T}}

\* where each workspace of the start lives
InitPath(n) == IF n = CurrentWorkspace THEN "/a" ELSE "/b"

\* the registry at the start holds the records of some of the tracked
\* workspaces: the others were added before the registry existed
InitFiles(view) ==
    {[k \in {Symbol(n) : n \in S} |->
        Encode(RecordOf(CHOOSE n \in S : Symbol(n) = k,
                        InitPath(CHOOSE n \in S : Symbol(n) = k)))] :
        S \in SUBSET DOMAIN view}

Init ==
    /\ dir \in {"absent", "dir", "file"}
    /\ wc_commit_ids \in InitViews
    /\ files \in (IF dir = "dir" THEN InitFiles(wc_commit_ids) ELSE {EmptyMap})
    /\ tmp = EmptyMap
    /\ fs = [q \in Paths |-> IF q = "/l" THEN "/b" ELSE "dir"]
    /\ pc = [p \in Procs |-> "idle"]
    /\ cmd = [p \in Procs |-> NoCmd]
    /\ res = [p \in Procs |-> NoResult]
    /\ wss = [p \in Procs |-> <<>>]
    /\ idx = [p \in Procs |-> 0]
    /\ repo = [p \in Procs |-> EmptyMap]
    /\ tx = [p \in Procs |-> EmptyMap]
    /\ txOpen = [p \in Procs |-> FALSE]
    /\ proto = [p \in Procs |-> EmptyRecord]
    /\ tempFile = [p \in Procs |-> 0]
    /\ rootPath = [p \in Procs |-> NoPath]
    /\ stdout = [p \in Procs |-> <<>>]
    /\ committed = [p \in Procs |-> NoDescription]
    /\ pre = [p \in Procs |-> NoSnapshot]

\* ------------------------------------------------------------------------
\* A command begins: the process is started with its arguments

Begin(p, c, first) ==
    /\ pc[p] = "idle"
    /\ pc' = [pc EXCEPT ![p] = first]
    /\ cmd' = [cmd EXCEPT ![p] = c]
    /\ repo' = [repo EXCEPT ![p] = wc_commit_ids]
    /\ pre' = [pre EXCEPT ![p] = [dir |-> dir, files |-> files, view |-> wc_commit_ids]]
    /\ UNCHANGED <<dir, files, tmp, wc_commit_ids, fs, res>>
    /\ UNCHANGED <<idx, tx, txOpen, proto, tempFile, rootPath, stdout, committed>>

\* the command ends with result r
Finish(p, r) ==
    /\ pc' = [pc EXCEPT ![p] = "done"]
    /\ res' = [res EXCEPT ![p] = r]

Goto(p, next) ==
    /\ pc' = [pc EXCEPT ![p] = next]
    /\ UNCHANGED res

\* the process exits: what it held in memory is gone
Return(p) ==
    /\ pc[p] = "done"
    /\ pc' = [pc EXCEPT ![p] = "idle"]
    /\ cmd' = [cmd EXCEPT ![p] = NoCmd]
    /\ res' = [res EXCEPT ![p] = NoResult]
    /\ wss' = [wss EXCEPT ![p] = <<>>]
    /\ idx' = [idx EXCEPT ![p] = 0]
    /\ repo' = [repo EXCEPT ![p] = EmptyMap]
    /\ tx' = [tx EXCEPT ![p] = EmptyMap]
    /\ txOpen' = [txOpen EXCEPT ![p] = FALSE]
    /\ proto' = [proto EXCEPT ![p] = EmptyRecord]
    /\ tempFile' = [tempFile EXCEPT ![p] = 0]
    /\ rootPath' = [rootPath EXCEPT ![p] = NoPath]
    /\ stdout' = [stdout EXCEPT ![p] = <<>>]
    /\ committed' = [committed EXCEPT ![p] = NoDescription]
    /\ pre' = [pre EXCEPT ![p] = NoSnapshot]
    /\ UNCHANGED <<dir, files, tmp, wc_commit_ids, fs>>

\* ------------------------------------------------------------------------
\* SimpleWorkspaceStore::load

\* where the command goes on once the registry is loaded
AfterLoad(c) ==
    CASE c.op = "set" -> "set_proto"
      [] c.op = "get" -> "get_read"
      [] c.op = "remove" -> "remove_path"
      [] c.op = "forget" -> "forget_loop"
      [] OTHER -> "root_resolve"

\* StoreLoad failing on a repository that has no registry directory
StoreLoadNoCreate(p) ==
    /\ pc[p] = "load"
    /\ IF dir = "dir"
       THEN Goto(p, AfterLoad(cmd[p]))
       ELSE Finish(p, PathError)
    /\ UNCHANGED <<dir, files, tmp, wc_commit_ids, fs, cmd, pre>>
    /\ UNCHANGED locals

\* StoreLoad making a directory of whatever is at the path
StoreLoadOverFile(p) ==
    /\ pc[p] = "load"
    /\ dir' = "dir"
    /\ Goto(p, AfterLoad(cmd[p]))
    /\ UNCHANGED <<files, tmp, wc_commit_ids, fs, cmd, pre>>
    /\ UNCHANGED locals

StoreLoad(p) ==
    /\ pc[p] = "load"
    /\ dir' = create_or_reuse_dir(dir)
    /\ IF dir' = "dir"
       THEN Goto(p, AfterLoad(cmd[p]))
       ELSE Finish(p, PathError)
    /\ UNCHANGED <<files, tmp, wc_commit_ids, fs, cmd, pre>>
    /\ UNCHANGED locals

\* ------------------------------------------------------------------------
\* SimpleWorkspaceStore::set_path

CallSet(p, n, path) ==
    /\ Begin(p, [NoCmd EXCEPT !.op = "set", !.name = n, !.path = path], "load")
    /\ UNCHANGED wss

\* SetProto with the path stored as it was given
SetProtoAsGiven(p) ==
    /\ pc[p] = "set_proto"
    /\ proto' = [proto EXCEPT ![p] = [name |-> Utf8(Symbol(cmd[p].name)),
                                      path |-> Utf8(cmd[p].path)]]
    /\ Goto(p, "set_temp")
    /\ UNCHANGED <<dir, files, tmp, wc_commit_ids, fs, cmd, pre>>
    /\ UNCHANGED <<wss, idx, repo, tx, txOpen, tempFile, rootPath, stdout, committed>>

\* build the record: the symbol of the name and the canonical path
SetProto(p) ==
    /\ pc[p] = "set_proto"
    /\ LET workspace_name_string == Symbol(cmd[p].name)
           canonical == Canonicalize(fs, cmd[p].path)
       IN  IF canonical = NoPath
           THEN /\ Finish(p, IoError("NotFound"))
                /\ UNCHANGED proto
           ELSE /\ proto' = [proto EXCEPT ![p] =
                                [name |-> Utf8(workspace_name_string),
                                 path |-> Utf8(canonical)]]
                /\ Goto(p, "set_temp")
    /\ UNCHANGED <<dir, files, tmp, wc_commit_ids, fs, cmd, pre>>
    /\ UNCHANGED <<wss, idx, repo, tx, txOpen, tempFile, rootPath, stdout, committed>>

\* NamedTempFile::new_in: an empty file of a name not in use
SetTemp(p) ==
    /\ pc[p] = "set_temp"
    /\ \E id \in TempIds :
        /\ id \notin DOMAIN tmp
        /\ \A other \in TempIds : other \notin DOMAIN tmp => id <= other
        /\ tmp' = With(tmp, id, <<>>)
        /\ tempFile' = [tempFile EXCEPT ![p] = id]
    /\ Goto(p, "set_write")
    /\ UNCHANGED <<dir, files, wc_commit_ids, fs, cmd, pre>>
    /\ UNCHANGED <<wss, idx, repo, tx, txOpen, proto, rootPath, stdout, committed>>

\* SetWrite with the bytes also written to the file of the final name
SetWriteInPlace(p) ==
    /\ pc[p] = "set_write"
    /\ LET bytes == Encode(proto[p])
           written == Len(tmp[tempFile[p]])
       IN  \E k \in (written + 1)..Len(bytes) :
            /\ tmp' = With(tmp, tempFile[p], SubSeq(bytes, 1, k))
            /\ files' = With(files, get_file(cmd[p].name), SubSeq(bytes, 1, k))
            /\ Goto(p, IF k = Len(bytes) THEN "set_persist" ELSE "set_write")
    /\ UNCHANGED <<dir, wc_commit_ids, fs, cmd, pre>>
    /\ UNCHANGED locals

\* write_all: each write call appends some of the bytes still to write
SetWrite(p) ==
    /\ pc[p] = "set_write"
    /\ LET bytes == Encode(proto[p])
           written == Len(tmp[tempFile[p]])
       IN  \E k \in (written + 1)..Len(bytes) :
            /\ tmp' = With(tmp, tempFile[p], SubSeq(bytes, 1, k))
            /\ Goto(p, IF k = Len(bytes) THEN "set_persist" ELSE "set_write")
    /\ UNCHANGED <<dir, files, wc_commit_ids, fs, cmd, pre>>
    /\ UNCHANGED locals

\* SetPersist keeping the file of the final name when there is one
SetPersistNoClobber(p) ==
    /\ pc[p] = "set_persist"
    /\ files' = IF get_file(cmd[p].name) \in DOMAIN files THEN files
                ELSE persist_temp_file(files, tmp, tempFile[p], get_file(cmd[p].name))
    /\ tmp' = Without(tmp, tempFile[p])
    /\ tempFile' = [tempFile EXCEPT ![p] = 0]
    /\ Finish(p, Ok)
    /\ UNCHANGED <<dir, wc_commit_ids, fs, cmd, pre>>
    /\ UNCHANGED <<wss, idx, repo, tx, txOpen, proto, rootPath, stdout, committed>>

\* persist_temp_file: rename the temporary file over the final name
SetPersist(p) ==
    /\ pc[p] = "set_persist"
    /\ files' = persist_temp_file(files, tmp, tempFile[p], get_file(cmd[p].name))
    /\ tmp' = Without(tmp, tempFile[p])
    /\ tempFile' = [tempFile EXCEPT ![p] = 0]
    /\ Finish(p, Ok)
    /\ UNCHANGED <<dir, wc_commit_ids, fs, cmd, pre>>
    /\ UNCHANGED <<wss, idx, repo, tx, txOpen, proto, rootPath, stdout, committed>>

\* ------------------------------------------------------------------------
\* SimpleWorkspaceStore::get_path

CallGet(p, n) ==
    /\ Begin(p, [NoCmd EXCEPT !.op = "get", !.name = n], "load")
    /\ UNCHANGED wss

\* fs::read of the whole file, then decode: the caller holds workspace_proto
GetRead(p) ==
    /\ pc[p] = "get_read"
    /\ LET got == get_path(cmd[p].name)
       IN  /\ proto' = [proto EXCEPT ![p] = got.rec]
           /\ Finish(p, got.res)
    /\ UNCHANGED <<dir, files, tmp, wc_commit_ids, fs, cmd, pre>>
    /\ UNCHANGED <<wss, idx, repo, tx, txOpen, tempFile, rootPath, stdout, committed>>

\* ------------------------------------------------------------------------
\* SimpleWorkspaceStore::remove_path

CallRemove(p, n) ==
    /\ Begin(p, [NoCmd EXCEPT !.op = "remove", !.name = n], "load")
    /\ UNCHANGED wss

\* remove_path taking a missing file for a removed one
RemovePathLenient(fl, workspace_name) ==
    [files |-> Without(fl, get_file(workspace_name)), res |-> Ok]

\* fs::remove_file on the file of a name: the files and the result
remove_path(fl, workspace_name) ==
    LET workspace_file == get_file(workspace_name)
    IN  IF workspace_file \in DOMAIN fl
        THEN [files |-> Without(fl, workspace_file), res |-> Ok]
        ELSE [files |-> fl, res |-> IoError("NotFound")]

\* RemovePath answering Ok with the file left in place
RemovePathKept(p) ==
    /\ pc[p] = "remove_path"
    /\ Finish(p, Ok)
    /\ UNCHANGED <<dir, files, tmp, wc_commit_ids, fs, cmd, pre>>
    /\ UNCHANGED locals

RemovePath(p) ==
    /\ pc[p] = "remove_path"
    /\ LET r == remove_path(files, cmd[p].name)
       IN  /\ files' = r.files
           /\ Finish(p, r.res)
    /\ UNCHANGED <<dir, tmp, wc_commit_ids, fs, cmd, pre>>
    /\ UNCHANGED locals

\* ------------------------------------------------------------------------
\* The host filesystem changes between two commands

EnvChange ==
    /\ \A p \in Procs : pc[p] = "idle"
    /\ fs' \in FsStates \ {fs}
    /\ UNCHANGED <<dir, files, tmp, wc_commit_ids, pc, cmd, res, pre>>
    /\ UNCHANGED locals


\* ------------------------------------------------------------------------
\* cmd_workspace_forget

\* ResolveNames taking no argument to mean every workspace
ResolveNamesAll(args) == IF args = <<>> THEN <<"a", "b", "+">> ELSE args

\* the names to forget: the arguments, or the current workspace when none
\* is given
ResolveNames(args) == IF args = <<>> THEN <<CurrentWorkspace>> ELSE args

CallForget(p, args) ==
    /\ Begin(p, [NoCmd EXCEPT !.op = "forget", !.args = args], "forget_validate")
    /\ wss' = [wss EXCEPT ![p] = ResolveNames(args)]

\* FirstUntracked looking at the first name of the list only
FirstUntrackedHead(list, view) ==
    IF list # <<>> /\ list[1] \notin DOMAIN view THEN 1 ELSE 0

\* the position of the first name of the list the view does not track, 0
\* when it tracks them all
FirstUntracked(list, view) ==
    IF \E i \in 1..Len(list) : list[i] \notin DOMAIN view
    THEN CHOOSE i \in 1..Len(list) :
            /\ list[i] \notin DOMAIN view
            /\ \A j \in 1..(i - 1) : list[j] \in DOMAIN view
    ELSE 0

NoSuchWorkspace(ws) == UserError("No such workspace: " \o Symbol(ws))

\* ForgetValidate letting every list pass
ForgetValidateLenient(p) ==
    /\ pc[p] = "forget_validate"
    /\ Goto(p, "forget_start")
    /\ UNCHANGED <<dir, files, tmp, wc_commit_ids, fs, cmd, pre>>
    /\ UNCHANGED locals

ForgetValidate(p) ==
    /\ pc[p] = "forget_validate"
    /\ LET bad == FirstUntracked(wss[p], repo[p])
       IN  IF bad # 0
           THEN Finish(p, NoSuchWorkspace(wss[p][bad]))
           ELSE Goto(p, "forget_start")
    /\ UNCHANGED <<dir, files, tmp, wc_commit_ids, fs, cmd, pre>>
    /\ UNCHANGED locals

\* start_transaction: the transaction works on a copy of the loaded view
ForgetStartTx(p) ==
    /\ pc[p] = "forget_start"
    /\ tx' = [tx EXCEPT ![p] = repo[p]]
    /\ txOpen' = [txOpen EXCEPT ![p] = TRUE]
    /\ idx' = [idx EXCEPT ![p] = 1]
    /\ Goto(p, "load")
    /\ UNCHANGED <<dir, files, tmp, wc_commit_ids, fs, cmd, pre>>
    /\ UNCHANGED <<wss, repo, proto, tempFile, rootPath, stdout, committed>>

\* the loop goes on to the next name, or ends
Advance(p) ==
    /\ idx' = [idx EXCEPT ![p] = idx[p] + 1]
    /\ Goto(p, IF idx[p] + 1 > Len(wss[p]) THEN "forget_finish" ELSE "forget_loop")

\* ForgetRemoveWc removing the pointer from the committed view as well
ForgetRemoveWcCommitted(p) ==
    /\ pc[p] = "forget_loop"
    /\ tx' = [tx EXCEPT ![p] = Without(tx[p], wss[p][idx[p]])]
    /\ wc_commit_ids' = Without(wc_commit_ids, wss[p][idx[p]])
    /\ Goto(p, "forget_exists")
    /\ UNCHANGED <<dir, files, tmp, fs, cmd, pre>>
    /\ UNCHANGED <<wss, idx, repo, txOpen, proto, tempFile, rootPath, stdout,
                   committed>>

\* tx.repo_mut().remove_wc_commit(ws)
ForgetRemoveWc(p) ==
    /\ pc[p] = "forget_loop"
    /\ tx' = [tx EXCEPT ![p] = Without(tx[p], wss[p][idx[p]])]
    /\ Goto(p, "forget_exists")
    /\ UNCHANGED <<dir, files, tmp, wc_commit_ids, fs, cmd, pre>>
    /\ UNCHANGED <<wss, idx, repo, txOpen, proto, tempFile, rootPath, stdout,
                   committed>>

\* ForgetExists taking no name to have a record
ForgetExistsNever(p) ==
    /\ pc[p] = "forget_exists"
    /\ Advance(p)
    /\ UNCHANGED <<dir, files, tmp, wc_commit_ids, fs, cmd, pre>>
    /\ UNCHANGED <<wss, repo, tx, txOpen, proto, tempFile, rootPath, stdout, committed>>

\* ForgetExists taking every name to have a record
ForgetExistsAlways(p) ==
    /\ pc[p] = "forget_exists"
    /\ Goto(p, "forget_remove")
    /\ UNCHANGED <<dir, files, tmp, wc_commit_ids, fs, cmd, pre>>
    /\ UNCHANGED <<wss, idx, repo, tx, txOpen, proto, tempFile, rootPath, stdout,
                   committed>>

\* if workspace_store.exists(ws)
ForgetExists(p) ==
    /\ pc[p] = "forget_exists"
    /\ IF exists(wss[p][idx[p]])
       THEN Goto(p, "forget_remove") /\ UNCHANGED idx
       ELSE Advance(p)
    /\ UNCHANGED <<dir, files, tmp, wc_commit_ids, fs, cmd, pre>>
    /\ UNCHANGED <<wss, repo, tx, txOpen, proto, tempFile, rootPath, stdout, committed>>

\* ForgetRemovePath leaving the file where it is
ForgetRemovePathSkipped(p) ==
    /\ pc[p] = "forget_remove"
    /\ Advance(p)
    /\ UNCHANGED <<dir, files, tmp, wc_commit_ids, fs, cmd, pre>>
    /\ UNCHANGED <<wss, repo, tx, txOpen, proto, tempFile, rootPath, stdout, committed>>

\* workspace_store.remove_path(ws)?
ForgetRemovePath(p) ==
    /\ pc[p] = "forget_remove"
    /\ LET r == remove_path(files, wss[p][idx[p]])
       IN  /\ files' = r.files
           /\ IF r.res = Ok
              THEN Advance(p)
              ELSE Finish(p, r.res) /\ UNCHANGED idx
    /\ UNCHANGED <<dir, tmp, wc_commit_ids, fs, cmd, pre>>
    /\ UNCHANGED <<wss, repo, tx, txOpen, proto, tempFile, rootPath, stdout, committed>>

\* the names of a list as symbols, joined by ", "
RECURSIVE JoinSymbols(_)
JoinSymbols(list) ==
    IF list = <<>> THEN ""
    ELSE IF Len(list) = 1 THEN Symbol(list[1])
    ELSE Symbol(list[1]) \o ", " \o JoinSymbols(Tail(list))

\* Description in the plural whatever the number of names
DescriptionPlural(list) == "forget workspaces " \o JoinSymbols(list)

Description(list) ==
    IF Len(list) = 1
    THEN "forget workspace " \o Symbol(list[1])
    ELSE "forget workspaces " \o JoinSymbols(list)

\* ForgetFinish dropping the transaction and answering Ok
ForgetFinishDrops(p) ==
    /\ pc[p] = "forget_finish"
    /\ txOpen' = [txOpen EXCEPT ![p] = FALSE]
    /\ Finish(p, Ok)
    /\ UNCHANGED <<dir, files, tmp, wc_commit_ids, fs, cmd, pre>>
    /\ UNCHANGED <<wss, idx, repo, tx, proto, tempFile, rootPath, stdout, committed>>

\* tx.finish(ui, description): the transaction's view becomes the committed
\* view in one operation of the given description; a transaction that
\* changed nothing is dropped
ForgetFinish(p) ==
    /\ pc[p] = "forget_finish"
    /\ LET description == Description(wss[p])
       IN  IF tx[p] = repo[p]
           THEN UNCHANGED <<wc_commit_ids, committed>>
           ELSE /\ wc_commit_ids' = tx[p]
                /\ committed' = [committed EXCEPT ![p] = description]
    /\ txOpen' = [txOpen EXCEPT ![p] = FALSE]
    /\ Finish(p, Ok)
    /\ UNCHANGED <<dir, files, tmp, fs, cmd, pre>>
    /\ UNCHANGED <<wss, idx, repo, tx, proto, tempFile, rootPath, stdout>>

\* ------------------------------------------------------------------------
\* cmd_workspace_root

\* named: a name was given with --workspace
CallRoot(p, named, n) ==
    /\ Begin(p, [NoCmd EXCEPT !.op = "root", !.named = named,
                              !.name = IF named THEN n ELSE ""],
             "load")
    /\ UNCHANGED wss

\* the name root resolves: the one given, or the current workspace's
RootName(c) == IF c.named THEN c.name ELSE CurrentWorkspace

\* the three ways RootResolve ends
RootFound(p, path) ==
    /\ rootPath' = [rootPath EXCEPT ![p] = path]
    /\ Goto(p, "root_write")

RootFailed(p, r) == Finish(p, r) /\ UNCHANGED rootPath

RootFrame ==
    /\ UNCHANGED <<dir, files, tmp, wc_commit_ids, fs, cmd, pre>>
    /\ UNCHANGED <<wss, idx, repo, tx, txOpen, proto, tempFile, stdout, committed>>

\* RootResolve answering the ambient root for the current workspace before
\* it looks at the registry
RootResolveAmbientFirst(p) ==
    /\ pc[p] = "root_resolve"
    /\ LET name == RootName(cmd[p])
           got == get_path(name)
           canonical == Canonicalize(fs, PathOfBytes(got.rec.path))
       IN  IF ~cmd[p].named THEN RootFound(p, AmbientRoot)
           ELSE IF ~exists(name) THEN RootFailed(p, NoSuchWorkspace(name))
           ELSE IF got.res # Ok THEN RootFailed(p, got.res)
           ELSE IF canonical = NoPath THEN RootFailed(p, IoError("NotFound"))
           ELSE RootFound(p, canonical)
    /\ RootFrame

\* RootResolve falling back to the ambient root whenever the name is the
\* current workspace's
RootResolveFallback(p) ==
    /\ pc[p] = "root_resolve"
    /\ LET name == RootName(cmd[p])
           got == get_path(name)
           canonical == Canonicalize(fs, PathOfBytes(got.rec.path))
       IN  IF exists(name)
           THEN IF got.res # Ok THEN RootFailed(p, got.res)
                ELSE IF canonical = NoPath THEN RootFailed(p, IoError("NotFound"))
                ELSE RootFound(p, canonical)
           ELSE IF name # CurrentWorkspace
           THEN RootFailed(p, NoSuchWorkspace(name))
           ELSE RootFound(p, AmbientRoot)
    /\ RootFrame

\* RootResolve asking the view, not only the registry, before it reports a
\* name as unknown
RootResolveAsksView(p) ==
    /\ pc[p] = "root_resolve"
    /\ LET name == RootName(cmd[p])
           got == get_path(name)
           canonical == Canonicalize(fs, PathOfBytes(got.rec.path))
       IN  IF exists(name)
           THEN IF got.res # Ok THEN RootFailed(p, got.res)
                ELSE IF canonical = NoPath THEN RootFailed(p, IoError("NotFound"))
                ELSE RootFound(p, canonical)
           ELSE IF cmd[p].named /\ name \notin DOMAIN repo[p]
           THEN RootFailed(p, NoSuchWorkspace(name))
           ELSE RootFound(p, AmbientRoot)
    /\ RootFrame

RootResolve(p) ==
    /\ pc[p] = "root_resolve"
    /\ LET name == RootName(cmd[p])
           got == get_path(name)
           canonical == Canonicalize(fs, PathOfBytes(got.rec.path))
       IN  IF exists(name)
           THEN IF got.res # Ok THEN RootFailed(p, got.res)
                ELSE IF canonical = NoPath THEN RootFailed(p, IoError("NotFound"))
                ELSE RootFound(p, canonical)
           ELSE IF cmd[p].named
           THEN RootFailed(p, NoSuchWorkspace(name))
           ELSE RootFound(p, AmbientRoot)
    /\ RootFrame

\* the bytes of the path, then a newline
RootWrite(p) ==
    /\ pc[p] = "root_write"
    /\ stdout' = [stdout EXCEPT ![p] = PathToBytes(rootPath[p]) \o Utf8("\n")]
    /\ Finish(p, Ok)
    /\ UNCHANGED <<dir, files, tmp, wc_commit_ids, fs, cmd, pre>>
    /\ UNCHANGED <<wss, idx, repo, tx, txOpen, proto, tempFile, rootPath, committed>>

\* ------------------------------------------------------------------------
\* Failures of the environment

\* the steps that call the filesystem, the repository or the output stream
\* and return their error with `?`
Fallible ==
    {"load", "set_temp", "set_write", "set_persist", "remove_path",
     "get_read", "forget_loop", "forget_remove", "forget_finish", "root_write"}

\* IoFault committing what the open transaction has done so far
IoFaultCommits(p) ==
    /\ pc[p] \in Fallible
    /\ tmp' = IF tempFile[p] # 0 THEN Without(tmp, tempFile[p]) ELSE tmp
    /\ tempFile' = [tempFile EXCEPT ![p] = 0]
    /\ txOpen' = [txOpen EXCEPT ![p] = FALSE]
    /\ wc_commit_ids' = IF txOpen[p] THEN tx[p] ELSE wc_commit_ids
    /\ Finish(p, IoError("Other"))
    /\ UNCHANGED <<dir, files, fs, cmd, pre>>
    /\ UNCHANGED <<wss, idx, repo, tx, proto, rootPath, stdout, committed>>

\* the call of the step fails: the error is returned, the temporary file is
\* deleted as it goes out of scope and an open transaction is dropped
IoFault(p) ==
    /\ pc[p] \in Fallible
    /\ tmp' = IF tempFile[p] # 0 THEN Without(tmp, tempFile[p]) ELSE tmp
    /\ tempFile' = [tempFile EXCEPT ![p] = 0]
    /\ txOpen' = [txOpen EXCEPT ![p] = FALSE]
    /\ Finish(p, IoError("Other"))
    /\ UNCHANGED <<dir, files, wc_commit_ids, fs, cmd, pre>>
    /\ UNCHANGED <<wss, idx, repo, tx, proto, rootPath, stdout, committed>>

\* the process is killed: nothing is cleaned up, and it runs no further
\* command
Crash(p) ==
    /\ pc[p] \notin {"idle", "done", "killed"}
    /\ pc' = [pc EXCEPT ![p] = "killed"]
    /\ res' = [res EXCEPT ![p] = Killed]
    /\ UNCHANGED <<dir, files, tmp, wc_commit_ids, fs, cmd, pre>>
    /\ UNCHANGED locals

\* ------------------------------------------------------------------------
\* Specifications

\* the argument lists of forget
ArgLists == UNION {[1..k -> Names] : k \in 0..MaxArgs}

Call(p) ==
    \/ \E n \in Names, path \in Paths : CallSet(p, n, path)
    \/ \E n \in Names : CallGet(p, n)
    \/ \E n \in Names : CallRemove(p, n)
    \/ \E args \in ArgLists : CallForget(p, args)
    \/ \E n \in Names : CallRoot(p, TRUE, n)
    \/ CallRoot(p, FALSE, "")

Step(p) ==
    \/ StoreLoad(p)
    \/ SetProto(p)
    \/ SetTemp(p)
    \/ SetWrite(p)
    \/ SetPersist(p)
    \/ GetRead(p)
    \/ RemovePath(p)
    \/ ForgetValidate(p)
    \/ ForgetStartTx(p)
    \/ ForgetRemoveWc(p)
    \/ ForgetExists(p)
    \/ ForgetRemovePath(p)
    \/ ForgetFinish(p)
    \/ RootResolve(p)
    \/ RootWrite(p)
    \/ Return(p)

\* one process runs one command after another, and nothing fails
Next ==
    \/ Call("p1")
    \/ Step("p1")
    \/ EnvChange

Spec == Init /\ [][Next]_vars

\* the same, with calls that fail and processes that are killed
FaultNext ==
    \/ Next
    \/ IoFault("p1")
    \/ Crash("p1")

FaultSpec == Init /\ [][FaultNext]_vars

\* the two commands alone: no other caller of the registry runs
CmdCall(p) ==
    \/ \E args \in ArgLists : CallForget(p, args)
    \/ \E n \in Names : CallRoot(p, TRUE, n)
    \/ CallRoot(p, FALSE, "")

CmdStep(p) ==
    \/ StoreLoad(p)
    \/ ForgetValidate(p)
    \/ ForgetStartTx(p)
    \/ ForgetRemoveWc(p)
    \/ ForgetExists(p)
    \/ ForgetRemovePath(p)
    \/ ForgetFinish(p)
    \/ RootResolve(p)
    \/ RootWrite(p)
    \/ Return(p)

CmdNext ==
    \/ CmdCall("p1")
    \/ CmdStep("p1")
    \/ EnvChange

CmdSpec == Init /\ [][CmdNext]_vars

\* the same, with calls that fail and processes that are killed
CmdFaultNext ==
    \/ CmdNext
    \/ IoFault("p1")
    \/ Crash("p1")

CmdFaultSpec == Init /\ [][CmdFaultNext]_vars

\* two processes, each running one set_path or get_path, their steps
\* interleaved in any order
ConcCall(p) ==
    \/ \E n \in Names, path \in Paths : CallSet(p, n, path)
    \/ \E n \in Names : CallGet(p, n)

ConcStep(p) ==
    \/ StoreLoad(p)
    \/ SetProto(p)
    \/ SetTemp(p)
    \/ SetWrite(p)
    \/ SetPersist(p)
    \/ GetRead(p)

ConcNext == \E p \in Procs : ConcCall(p) \/ ConcStep(p)

ConcSpec == Init /\ [][ConcNext]_vars

\* ------------------------------------------------------------------------
\* Properties

\* the record set(n, path) stores
NewRecord(c) == RecordOf(c.name, Canonicalize(fs, c.path))

\* C1: once set(n, p) has returned successfully, exists(n) is true and
\* get(n) returns the record whose name is the symbol of n and whose path is
\* the canonical form of p, whatever the registry held before.
C1_SetThenGet ==
    \A p \in Procs :
        (pc[p] = "done" /\ cmd[p].op = "set" /\ res[p] = Ok) =>
            /\ exists(cmd[p].name)
            /\ get_path(cmd[p].name).res = Ok
            /\ get_path(cmd[p].name).rec.name = Utf8(Symbol(cmd[p].name))
            /\ get_path(cmd[p].name).rec.path = Utf8(Canonicalize(fs, cmd[p].path))

\* a set of a symlinked path has replaced the record of a quoted name that
\* held another path
C1_Witness ==
    \E p \in Procs :
        /\ pc[p] = "done" /\ cmd[p].op = "set" /\ res[p] = Ok
        /\ cmd[p].name = "+" /\ cmd[p].path = "/l"
        /\ get_file("+") \in DOMAIN pre[p].files
        /\ pre[p].files[get_file("+")] # files[get_file("+")]

\* C2: at every step of a set(n, p), and when the process is killed at any
\* of them, get(n) returns the record from before the call (or NotFound if
\* there was none) or the complete new record, never a decode error.
C2_SetAtomicWhenKilled ==
    \A p \in Procs :
        cmd[p].op = "set" =>
            LET now == get_path(cmd[p].name)
                before == ReadRecord(pre[p].dir, pre[p].files, cmd[p].name)
            IN  /\ now.res # ProstDecode
                /\ \/ now = before
                   \/ /\ Canonicalize(fs, cmd[p].path) # NoPath
                      /\ now = [res |-> Ok, rec |-> NewRecord(cmd[p])]

\* the process was killed with part of the new record written to the
\* temporary file, which does not decode, over a record holding another path
C2_Witness ==
    \E p \in Procs :
        /\ pc[p] = "killed" /\ cmd[p].op = "set"
        /\ tempFile[p] \in DOMAIN tmp
        /\ tmp[tempFile[p]] # <<>>
        /\ tmp[tempFile[p]] # Encode(proto[p])
        /\ ~Decode(tmp[tempFile[p]]).ok
        /\ get_path(cmd[p].name).res = Ok
        /\ get_path(cmd[p].name).rec # proto[p]

\* the names forget works on, from its arguments
ListOf(c) == IF Len(c.args) = 0 THEN <<CurrentWorkspace>> ELSE c.args

Unchanged(p) ==
    /\ wc_commit_ids = pre[p].view
    /\ files = pre[p].files
    /\ dir = pre[p].dir

\* C3: when some name of forget's list, at any position, has no working-copy
\* commit in the view, forget fails with "No such workspace: <name>" for the
\* first such name, and at no step starts a transaction or changes the view
\* or the registry.
C3_ForgetValidatesFirst ==
    \A p \in Procs :
        (cmd[p].op = "forget"
         /\ \E i \in 1..Len(ListOf(cmd[p])) : ListOf(cmd[p])[i] \notin DOMAIN pre[p].view) =>
            /\ Unchanged(p)
            /\ ~txOpen[p]
            /\ tx[p] = EmptyMap
            /\ committed[p] = NoDescription
            /\ pc[p] = "done" =>
                \E i \in 1..Len(ListOf(cmd[p])) :
                    /\ ListOf(cmd[p])[i] \notin DOMAIN pre[p].view
                    /\ \A j \in 1..(i - 1) : ListOf(cmd[p])[j] \in DOMAIN pre[p].view
                    /\ res[p] = UserError("No such workspace: "
                                          \o Symbol(ListOf(cmd[p])[i]))

\* forget was given a tracked name that has a record, then an untracked one,
\* and has failed
C3_Witness ==
    \E p \in Procs :
        /\ pc[p] = "done" /\ cmd[p].op = "forget"
        /\ Len(cmd[p].args) = 2
        /\ cmd[p].args[1] \in DOMAIN pre[p].view
        /\ get_file(cmd[p].args[1]) \in DOMAIN pre[p].files
        /\ cmd[p].args[2] \notin DOMAIN pre[p].view
        /\ res[p].kind = "UserError"

\* C4: when forget has succeeded, the view has no working-copy commit and
\* the registry no record for any name of its list, in whatever order the
\* names were given and whichever of them had a record.
C4_ForgetRemovesAll ==
    \A p \in Procs :
        (pc[p] = "done" /\ cmd[p].op = "forget" /\ res[p] = Ok) =>
            \A i \in 1..Len(ListOf(cmd[p])) :
                /\ ListOf(cmd[p])[i] \notin DOMAIN wc_commit_ids
                /\ ~exists(ListOf(cmd[p])[i])
                /\ ListOf(cmd[p])[i] \in DOMAIN pre[p].view

\* forget has succeeded on two names, the first without a record and the
\* second with one
C4_Witness ==
    \E p \in Procs :
        /\ pc[p] = "done" /\ cmd[p].op = "forget" /\ res[p] = Ok
        /\ Len(cmd[p].args) = 2
        /\ cmd[p].args[1] # cmd[p].args[2]
        /\ get_file(cmd[p].args[1]) \notin DOMAIN pre[p].files
        /\ get_file(cmd[p].args[2]) \in DOMAIN pre[p].files

\* every name of the list is gone from the view and from the registry
AllForgotten(p) ==
    \A i \in 1..Len(ListOf(cmd[p])) :
        /\ ListOf(cmd[p])[i] \notin DOMAIN wc_commit_ids
        /\ get_file(ListOf(cmd[p])[i]) \notin DOMAIN files

\* C5 as stated: in every outcome of forget, the removals from the view and
\* from the registry have all taken effect, or neither the view nor the
\* registry records differ from before.
C5_BothOrNeither ==
    \A p \in Procs :
        (pc[p] = "done" /\ cmd[p].op = "forget") =>
            \/ AllForgotten(p)
            \/ wc_commit_ids = pre[p].view /\ files = pre[p].files

\* the registry holds what it held before, without some records of the
\* names of the list
LostOnlyListed(p) ==
    /\ DOMAIN files \subseteq DOMAIN pre[p].files
    /\ \A k \in DOMAIN files : files[k] = pre[p].files[k]
    /\ \A k \in DOMAIN pre[p].files \ DOMAIN files :
        \E i \in 1..Len(ListOf(cmd[p])) : k = get_file(ListOf(cmd[p])[i])

\* C5 amended: however forget ends, either it succeeded, an operation was
\* committed and every name of the list is gone from the view and from the
\* registry, or it failed and the committed view is what it was before;
\* the registry of a failed forget holds its earlier records less some of
\* the names of the list, and all of them when pre-validation rejected the
\* list.
C5_ViewAtomicRegistryNot ==
    \A p \in Procs :
        (pc[p] \in {"done", "killed"} /\ cmd[p].op = "forget") =>
            \/ /\ res[p] = Ok
               /\ committed[p] # NoDescription
               /\ AllForgotten(p)
            \/ /\ res[p] # Ok
               /\ committed[p] = NoDescription
               /\ wc_commit_ids = pre[p].view
               /\ LostOnlyListed(p)
               /\ res[p].kind = "UserError" => files = pre[p].files

\* forget has failed at its second name after it removed the record of the
\* first
C5_Witness ==
    \E p \in Procs :
        /\ pc[p] = "done" /\ cmd[p].op = "forget"
        /\ res[p] = IoError("Other")
        /\ Len(cmd[p].args) = 2
        /\ idx[p] = 2
        /\ get_file(cmd[p].args[1]) \in DOMAIN pre[p].files
        /\ get_file(cmd[p].args[1]) \notin DOMAIN files
        /\ cmd[p].args[2] \in DOMAIN wc_commit_ids

Newline == <<10>>

\* C7: a root that succeeds has written one line: the canonical form of the
\* path of the record the registry holds for the name (the name given, or
\* the current workspace's), also when that is the current workspace; or, if
\* the registry holds no such record and no name was given, the ambient
\* root; in both cases the bytes of the path and one newline.
C7_RootOutput ==
    \A p \in Procs :
        (pc[p] = "done" /\ cmd[p].op = "root" /\ res[p] = Ok) =>
            LET name == IF cmd[p].named THEN cmd[p].name ELSE CurrentWorkspace
                stored == PathOfBytes(Decode(files[get_file(name)]).rec.path)
            IN  IF get_file(name) \in DOMAIN files
                THEN /\ Canonicalize(fs, stored) # NoPath
                     /\ stdout[p] = Utf8(Canonicalize(fs, stored)) \o Newline
                ELSE /\ ~cmd[p].named
                     /\ stdout[p] = Utf8(AmbientRoot) \o Newline

\* root without a name has written the path of the current workspace's
\* record, which is not the ambient root and not the path as stored
C7_Witness ==
    \E p \in Procs :
        /\ pc[p] = "done" /\ cmd[p].op = "root" /\ res[p] = Ok
        /\ ~cmd[p].named
        /\ exists(CurrentWorkspace)
        /\ get_path(CurrentWorkspace).rec.path = Utf8("/b")
        /\ stdout[p] = <<47, 97, 10>>
        /\ AmbientRoot = "/a"

\* C8: root given a name the (loaded) registry holds no record of fails with
\* "No such workspace: <name>" and writes nothing at any step, also when the
\* name is the current workspace's.
C8_RootExplicitUnknown ==
    \A p \in Procs :
        (cmd[p].op = "root" /\ cmd[p].named /\ dir = "dir"
         /\ get_file(cmd[p].name) \notin DOMAIN files) =>
            /\ stdout[p] = <<>>
            /\ pc[p] # "root_write"
            /\ pc[p] = "done" =>
                res[p] = UserError("No such workspace: " \o Symbol(cmd[p].name))

\* root given the current workspace's name, which has no record, has failed
C8_Witness ==
    \E p \in Procs :
        /\ pc[p] = "done" /\ cmd[p].op = "root" /\ cmd[p].named
        /\ cmd[p].name = CurrentWorkspace
        /\ CurrentWorkspace \in DOMAIN wc_commit_ids
        /\ ~exists(CurrentWorkspace)
        /\ res[p].kind = "UserError"

\* C9 as stated: root given a name reports "No such workspace" when the name
\* is absent from the registry and from the view, and only then.
C9_UnknownToBoth ==
    \A p \in Procs :
        (pc[p] = "done" /\ cmd[p].op = "root" /\ cmd[p].named /\ dir = "dir") =>
            (res[p].kind = "UserError"
                <=> /\ get_file(cmd[p].name) \notin DOMAIN files
                    /\ cmd[p].name \notin DOMAIN wc_commit_ids)

\* C9 amended: root reports "No such workspace: <name>" exactly when a name
\* was given and the registry holds no record of it, whether or not the
\* view tracks the name: a tracked workspace without a record is reported
\* as unknown.
C9_UnknownToRegistry ==
    \A p \in Procs :
        (pc[p] = "done" /\ cmd[p].op = "root" /\ dir = "dir") =>
            /\ res[p].kind = "UserError"
                <=> (cmd[p].named /\ get_file(cmd[p].name) \notin DOMAIN files)
            /\ res[p].kind = "UserError"
                => res[p].msg = "No such workspace: " \o Symbol(cmd[p].name)

\* root has reported a workspace the view tracks as unknown
C9_Witness ==
    \E p \in Procs :
        /\ pc[p] = "done" /\ cmd[p].op = "root" /\ cmd[p].named
        /\ cmd[p].name # CurrentWorkspace
        /\ cmd[p].name \in DOMAIN wc_commit_ids
        /\ res[p] = UserError("No such workspace: " \o Symbol(cmd[p].name))

\* the symbols of the first k names of a list, in their order, with ", "
\* between them
RECURSIVE CommaList(_, _)
CommaList(list, k) ==
    IF k = 1 THEN Symbol(list[1])
    ELSE CommaList(list, k - 1) \o ", " \o Symbol(list[k])

\* C10: the operation a successful forget commits is described "forget
\* workspace <sym>" when its list has one name (also the current workspace
\* standing for no argument) and otherwise "forget workspaces <sym1>,
\* <sym2>, ..." with the names in the order they were given.
C10_Description ==
    \A p \in Procs :
        (pc[p] = "done" /\ cmd[p].op = "forget" /\ res[p] = Ok) =>
            LET list == ListOf(cmd[p])
            IN  committed[p] =
                    IF Len(list) = 1
                    THEN "forget workspace " \o Symbol(list[1])
                    ELSE "forget workspaces " \o CommaList(list, Len(list))

\* forget of "+" then "a" has committed an operation that names them in
\* that order
C10_Witness ==
    \E p \in Procs :
        /\ pc[p] = "done" /\ cmd[p].op = "forget" /\ res[p] = Ok
        /\ cmd[p].args = <<"+", "a">>
        /\ committed[p] = "forget workspaces \"+\", a"

\* the registry files of the names other than n are what they were when the
\* command began
OthersKept(p, n) ==
    \A k \in (DOMAIN files \cup DOMAIN pre[p].files) \ {get_file(n)} :
        /\ k \in DOMAIN files
        /\ k \in DOMAIN pre[p].files
        /\ files[k] = pre[p].files[k]

\* C11: once remove(n) has returned successfully, exists(n) is false and
\* get(n) returns Io(NotFound), and the records of the other names are
\* unchanged.
C11_RemoveThenAbsent ==
    \A p \in Procs :
        (pc[p] = "done" /\ cmd[p].op = "remove" /\ res[p] = Ok) =>
            /\ ~exists(cmd[p].name)
            /\ get_path(cmd[p].name) = [res |-> IoError("NotFound"), rec |-> EmptyRecord]
            /\ get_file(cmd[p].name) \in DOMAIN pre[p].files
            /\ OthersKept(p, cmd[p].name)

\* remove of a quoted name has succeeded and left the other two records
C11_Witness ==
    \E p \in Procs :
        /\ pc[p] = "done" /\ cmd[p].op = "remove" /\ res[p] = Ok
        /\ cmd[p].name = "+"
        /\ DOMAIN pre[p].files = Symbols
        /\ DOMAIN files = Symbols \ {get_file("+")}

\* the file names of the workspaces the committed view tracks
TrackedFiles == {get_file(n) : n \in DOMAIN wc_commit_ids}

\* C12: the registry starts with records of tracked workspaces only, and
\* after any sequence of forget and root commands, successful, rejected,
\* failed or killed partway, at any step, every registry key is still the
\* name of a workspace the committed view tracks.
C12_RegistryWithinView == DOMAIN files \subseteq TrackedFiles

\* a forget of two names has failed after it removed a record, and the
\* registry still holds the record of a tracked workspace
C12_Witness ==
    \E p \in Procs :
        /\ pc[p] = "done" /\ cmd[p].op = "forget" /\ res[p].kind = "Io"
        /\ DOMAIN files # DOMAIN pre[p].files
        /\ DOMAIN files # {}
        /\ DOMAIN files # TrackedFiles

\* p has run set on name n and its rename is done
Renamed(p, n) ==
    /\ cmd[p].op = "set" /\ cmd[p].name = n
    /\ pc[p] = "done" /\ res[p] = Ok

\* what a get of p returned
Got(p) == [res |-> res[p], rec |-> proto[p]]

\* once a set of a name has renamed, the file of the name holds the whole
\* record of one of the sets that renamed; and a get that has returned gave
\* the record from before (or NotFound) or the whole record of a set of the
\* other process, never a decode error (a get whose load failed on the
\* directory never read the file)
C13_WholeRecords ==
    \A p \in Procs :
        /\ Renamed(p, cmd[p].name) =>
            \E q \in Procs :
                /\ Renamed(q, cmd[p].name)
                /\ files[get_file(cmd[p].name)]
                    = Encode(RecordOf(cmd[q].name, Canonicalize(fs, cmd[q].path)))
        /\ (pc[p] = "done" /\ cmd[p].op = "get" /\ res[p] # PathError) =>
            /\ res[p] # ProstDecode
            /\ \/ Got(p) = ReadRecord(pre[p].dir, pre[p].files, cmd[p].name)
               \/ \E q \in Procs \ {p} :
                    /\ cmd[q].op = "set" /\ cmd[q].name = cmd[p].name
                    /\ Canonicalize(fs, cmd[q].path) # NoPath
                    /\ Got(p) = [res |-> Ok, rec |-> NewRecord(cmd[q])]

\* a step changes the files of the registry only by the rename of a set,
\* and then the file of its name holds the whole record of that set
C13_LastRenameWins ==
    files' # files =>
        \E p \in Procs :
            /\ pc[p] = "set_persist" /\ pc'[p] = "done"
            /\ files' = With(files, get_file(cmd[p].name),
                             Encode(RecordOf(cmd[p].name, Canonicalize(fs, cmd[p].path))))

\* C13: when two processes run set on the same name concurrently, the file
\* of the name ends up holding one of the two records in full, the one
\* renamed last, and never a blend; a get running concurrently with a set
\* of the name observes the whole record from before (or NotFound) or the
\* whole new record.
C13_ConcurrentSetGet == []C13_WholeRecords /\ [][C13_LastRenameWins]_vars

\* two sets of a name that had no record, started before either renamed,
\* have both renamed different records, and the file holds the first
\* process's
C13_Witness ==
    /\ Renamed("p1", "+") /\ Renamed("p2", "+")
    /\ proto["p1"] # proto["p2"]
    /\ get_file("+") \notin DOMAIN pre["p1"].files
    /\ get_file("+") \notin DOMAIN pre["p2"].files
    /\ files[get_file("+")] = Encode(proto["p1"])

\* C14: forget removes the registry record of a listed name only after
\* pre-validation of the whole list has passed and before the transaction
\* is committed: while forget runs the registry may lack a record whose
\* working-copy commit the committed view still holds, but at no step, and
\* after no crash, does the committed view lack a name this forget removed
\* from it while the registry still holds the name's record.
C14_RecordsGoBeforeCommit ==
    \A p \in Procs :
        cmd[p].op = "forget" =>
            /\ files # pre[p].files =>
                /\ FirstUntracked(ListOf(cmd[p]), pre[p].view) = 0
                /\ pc[p] \notin {"forget_validate", "forget_start"}
            /\ \A i \in 1..Len(ListOf(cmd[p])) :
                (ListOf(cmd[p])[i] \in DOMAIN pre[p].view
                 /\ ListOf(cmd[p])[i] \notin DOMAIN wc_commit_ids) =>
                    ~exists(ListOf(cmd[p])[i])

\* a forget of two names is about to commit: the records of both are gone
\* and the committed view still holds both
C14_Witness ==
    \E p \in Procs :
        /\ pc[p] = "forget_finish" /\ cmd[p].op = "forget"
        /\ cmd[p].args = <<"b", "+">>
        /\ \A n \in {"b", "+"} :
            /\ get_file(n) \in DOMAIN pre[p].files
            /\ ~exists(n)
            /\ n \in DOMAIN wc_commit_ids

\* the names of the list before position i
Earlier(list, i) == {list[k] : k \in 1..(i - 1)}

\* C15: when forget, past pre-validation, fails at some name of its loop,
\* the transaction is never finished and the committed view is what it was
\* for every name, the records of the names earlier in the list are
\* deleted and stay so, and the records of the names from the failing one
\* on (that are not also earlier names) are as they were.
C15_ForgetFailsInLoop ==
    \A p \in Procs :
        (pc[p] = "done" /\ cmd[p].op = "forget" /\ res[p].kind = "Io"
         /\ idx[p] \in 1..Len(ListOf(cmd[p]))) =>
            /\ wc_commit_ids = pre[p].view
            /\ committed[p] = NoDescription
            /\ ~txOpen[p]
            /\ \A n \in Earlier(ListOf(cmd[p]), idx[p]) : ~exists(n)
            /\ \A j \in idx[p]..Len(ListOf(cmd[p])) :
                LET n == ListOf(cmd[p])[j]
                IN  n \notin Earlier(ListOf(cmd[p]), idx[p]) =>
                        /\ exists(n) = (get_file(n) \in DOMAIN pre[p].files)
                        /\ exists(n) => files[get_file(n)] = pre[p].files[get_file(n)]

\* forget of "+" and "b" failed at the second name after the name had left
\* the transaction's view: the record of "+" is deleted, the record of "b"
\* is there, and the committed view holds both
C15_Witness ==
    \E p \in Procs :
        /\ pc[p] = "done" /\ cmd[p].op = "forget" /\ res[p].kind = "Io"
        /\ cmd[p].args = <<"+", "b">> /\ idx[p] = 2
        /\ get_file("+") \in DOMAIN pre[p].files /\ ~exists("+")
        /\ exists("b")
        /\ {"+", "b"} \subseteq DOMAIN wc_commit_ids
        /\ {"+", "b"} \cap DOMAIN tx[p] = {}

\* C16: forget calls the registry's remove only for a name whose record
\* exists, so it never returns Io(NotFound); and for any list of names the
\* view tracks, whichever of them have a record, forget succeeds and
\* commits the removal of every listed name (the registry directory not
\* being a plain file).
C16_ForgetSkipsAbsentRecords ==
    \A p \in Procs :
        cmd[p].op = "forget" =>
            /\ pc[p] = "forget_remove" => exists(wss[p][idx[p]])
            /\ res[p] # IoError("NotFound")
            /\ (/\ pc[p] = "done"
                /\ pre[p].dir # "file"
                /\ \A i \in 1..Len(ListOf(cmd[p])) :
                        ListOf(cmd[p])[i] \in DOMAIN pre[p].view) =>
                    /\ res[p] = Ok
                    /\ AllForgotten(p)
                    /\ committed[p] = Description(ListOf(cmd[p]))

\* forget of "b", which had a record, and "+", which had none, succeeded
C16_Witness ==
    \E p \in Procs :
        /\ pc[p] = "done" /\ cmd[p].op = "forget" /\ res[p] = Ok
        /\ cmd[p].args = <<"b", "+">>
        /\ pre[p].dir = "dir"
        /\ get_file("b") \in DOMAIN pre[p].files
        /\ get_file("+") \notin DOMAIN pre[p].files
        /\ {"b", "+"} \subseteq DOMAIN pre[p].view
        /\ {"b", "+"} \cap DOMAIN wc_commit_ids = {}

\* the positions of a command that hold a loaded registry
Loaded ==
    {"set_proto", "set_temp", "set_write", "set_persist", "get_read",
     "remove_path", "forget_loop", "forget_exists", "forget_remove",
     "forget_finish", "root_resolve", "root_write"}

\* the directory exists wherever a registry has been loaded, and ensuring
\* the directory twice is ensuring it once
C17_LoadedHasDirectory ==
    /\ \A p \in Procs :
        (pc[p] \in Loaded \/ (pc[p] = "done" /\ res[p] = Ok)) => dir = "dir"
    /\ \A d \in {"absent", "dir", "file"} :
        create_or_reuse_dir(create_or_reuse_dir(d)) = create_or_reuse_dir(d)

\* what a load does, by what it finds at the path of the directory
C17_LoadStep ==
    \A p \in Procs :
        (pc[p] = "load" /\ pc'[p] # "load") =>
            /\ files' = files /\ tmp' = tmp /\ wc_commit_ids' = wc_commit_ids
            /\ IF dir = "file"
               THEN /\ dir' = "file"
                    /\ pc'[p] = "done" /\ res'[p] = PathError
               ELSE /\ dir' = "dir"
                    /\ pc'[p] = AfterLoad(cmd[p]) /\ res'[p] = NoResult

\* C17: load creates the registry directory when it is absent and succeeds,
\* reuses it when it is a directory and succeeds with every record
\* unchanged, and fails with an error, changing nothing, when the path is no
\* directory; so the directory exists whenever a registry has been loaded,
\* and loading again changes nothing more.
C17_LoadEnsuresDirectory == []C17_LoadedHasDirectory /\ [][C17_LoadStep]_vars

\* a get has loaded the registry of a repository that had no directory
C17_Witness ==
    \E p \in Procs :
        /\ pc[p] = "get_read" /\ cmd[p].op = "get"
        /\ pre[p].dir = "absent" /\ dir = "dir"
        /\ files = pre[p].files

\* C18: for a name that has no file in the registry, remove returns
\* Io(NotFound) and get returns Io(NotFound), and neither creates, changes
\* or deletes a file of the registry (the registry directory not being a
\* plain file, where load fails first).
C18_AbsentKeyErrors ==
    \A p \in Procs :
        (/\ pc[p] = "done" /\ cmd[p].op \in {"remove", "get"}
         /\ pre[p].dir # "file"
         /\ get_file(cmd[p].name) \notin DOMAIN pre[p].files) =>
            /\ res[p] = IoError("NotFound")
            /\ files = pre[p].files
            /\ tmp = EmptyMap

\* remove of "+" has returned in a registry that holds records of other
\* names and none of "+"
C18_Witness ==
    \E p \in Procs :
        /\ pc[p] = "done" /\ cmd[p].op = "remove" /\ cmd[p].name = "+"
        /\ res[p] = IoError("NotFound")
        /\ pre[p].dir = "dir"
        /\ pre[p].files # EmptyMap
        /\ get_file("+") \notin DOMAIN pre[p].files

\* the names of a list
Listed(c) == {ListOf(c)[i] : i \in 1..Len(ListOf(c))}

\* C19: at every step of a forget, however it ends, a workspace that is not
\* in its resolved list keeps its working-copy commit in the committed view
\* and its record in the registry as they were (no two names share a
\* file); without arguments the resolved list is the current workspace
\* alone.
C19_ForgetFrame ==
    /\ \A n, m \in Names : n # m => get_file(n) # get_file(m)
    /\ \A p \in Procs :
        cmd[p].op = "forget" =>
            /\ cmd[p].args = <<>> => Listed(cmd[p]) = {CurrentWorkspace}
            /\ \A n \in Names \ Listed(cmd[p]) :
                /\ (n \in DOMAIN wc_commit_ids) = (n \in DOMAIN pre[p].view)
                /\ n \in DOMAIN wc_commit_ids => wc_commit_ids[n] = pre[p].view[n]
                /\ (get_file(n) \in DOMAIN files) = (get_file(n) \in DOMAIN pre[p].files)
                /\ get_file(n) \in DOMAIN files =>
                        files[get_file(n)] = pre[p].files[get_file(n)]

\* forget without arguments has succeeded in a repository that tracks and
\* records all three workspaces: the current one is gone from both, the
\* other two are in both
C19_Witness ==
    \E p \in Procs :
        /\ pc[p] = "done" /\ cmd[p].op = "forget" /\ res[p] = Ok
        /\ cmd[p].args = <<>>
        /\ DOMAIN pre[p].view = Names
        /\ DOMAIN pre[p].files = Symbols
        /\ DOMAIN wc_commit_ids = Names \ {CurrentWorkspace}
        /\ DOMAIN files = Symbols \ {get_file(CurrentWorkspace)}

\* the command of p began where a successful forget of n leaves the
\* repository: the view does not track n, and the registry, loaded, has no
\* record of n
Forgotten(p, n) ==
    /\ n \notin DOMAIN pre[p].view
    /\ pre[p].dir = "dir"
    /\ get_file(n) \notin DOMAIN pre[p].files

\* C20: a forget that has succeeded leaves every name of its list out of
\* the view and without a record; a forget of the name n begun there, with
\* no workspace created in between, fails pre-validation with "No such
\* workspace: n" and changes neither the view nor the registry, and root
\* with the name n given fails there with the same error.
C20_ForgetNotRepeatable ==
    \A p \in Procs :
        /\ (pc[p] = "done" /\ cmd[p].op = "forget" /\ res[p] = Ok) =>
            /\ dir = "dir"
            /\ \A n \in Listed(cmd[p]) :
                n \notin DOMAIN wc_commit_ids /\ ~exists(n)
        /\ \A n \in Names :
            /\ (cmd[p].op = "forget" /\ ListOf(cmd[p]) = <<n>> /\ Forgotten(p, n)) =>
                /\ Unchanged(p)
                /\ ~txOpen[p]
                /\ pc[p] = "done" => res[p] = NoSuchWorkspace(n)
            /\ (/\ cmd[p].op = "root" /\ cmd[p].named /\ cmd[p].name = n
                /\ Forgotten(p, n)) =>
                /\ Unchanged(p)
                /\ stdout[p] = <<>>
                /\ pc[p] = "done" => res[p] = NoSuchWorkspace(n)

\* a forget of the current workspace, which only an earlier forget can have
\* taken out of the view, has failed
C20_Witness ==
    \E p \in Procs :
        /\ pc[p] = "done" /\ cmd[p].op = "forget"
        /\ ListOf(cmd[p]) = <<CurrentWorkspace>>
        /\ Forgotten(p, CurrentWorkspace)
        /\ res[p] = NoSuchWorkspace(CurrentWorkspace)

====
